---- MODULE Spec2Model ----
(***************************************************************************)
(* Lap-Lens backend: the session store and the prediction handlers of      *)
(* app/api/routes.py, the InferenceEngine of app/services/inference.py,    *)
(* the telemetry validation of app/utils/preprocess.py and the two Gemini  *)
(* collaborators (ExplainAI, RaceStoryGenerator).                          *)
(*                                                                         *)
(* Numbers: probabilities and confidences are percentages (0..100), lap    *)
(* times are ten-thousandths of a second (81.3 s is 813000), so that       *)
(* rounding to three decimals shows.  Telemetry values are records         *)
(* [kind, val]: kind is "int", "float" or "none"; a float's val is         *)
(* "finite" or "nan".  A key that is not in the DOMAIN of a request        *)
(* dictionary is a missing field.                                          *)
(***************************************************************************)
EXTENDS Integers, Sequences, FiniteSets, TLC

VARIABLES
    sessions,             \* routes.sessions: session_id -> session dict
    issued,               \* history: ids returned by create_session so far
    closeCalled,          \* history: ids on which close_session has succeeded
    artifacts,            \* the files that exist under MODELS_DIR
    inference_engine,     \* routes.inference_engine (InferenceEngine fields)
    explain_ai,           \* routes.explain_ai (ExplainAI fields)
    race_story_generator, \* routes.race_story_generator (RaceStoryGenerator fields)
    derivation,           \* extract_race_events and calculate_summary_stats called
                          \* on their own: session_predictions and what they returned
    event_loop            \* the event loop of uvicorn.run(app): the predict requests
                          \* in the order they arrived, and the status answered to
                          \* those whose handler has run

vars == <<sessions, issued, closeCalled, artifacts, inference_engine,
          explain_ai, race_story_generator, derivation, event_loop>>

----------------------------------------------------------------------------
(* Bounds of the exploration *)

MaxSessions == 2
MaxPredictions == 2
MaxLap == 2

(* Inputs *)

SessionIds == 1..MaxSessions
\* "nonexistent" in tests/test_api.py: an id create_session never returns
UnknownId == 0
RequestIds == SessionIds \cup {UnknownId}
Laps == 1..MaxLap
VehicleIds == {1}
RaceNames == {"Race 1"}

None == "None"

----------------------------------------------------------------------------
(* app/core/config.py *)

FEATURE_COLUMNS ==
    << "vehicle_id", "lap", "max_speed", "avg_speed", "std_speed", "avg_throttle",
       "brake_front_freq", "brake_rear_freq", "dominant_gear", "avg_steer_angle",
       "avg_long_accel", "avg_lat_accel", "avg_rpm",
       "rolling_std_lap_time", "lap_time_delta", "tire_wear_high",
       "air_temp", "track_temp", "humidity", "pressure", "wind_speed",
       "wind_direction", "rain" >>

NUMERIC_FEATURES == FEATURE_COLUMNS

LAP_TIME_MODEL_PATH == "lap_time_model.pkl"
PIT_IMMINENT_MODEL_PATH == "pit_imminent_model.pkl"
TIRE_COMPOUND_MODEL_PATH == "tire_compound_model.pkl"
SCALER_PATH == "scaler.pkl"

ArtifactPaths ==
    {LAP_TIME_MODEL_PATH, PIT_IMMINENT_MODEL_PATH, TIRE_COMPOUND_MODEL_PATH, SCALER_PATH}

Range(s) == {s[i] : i \in DOMAIN s}

----------------------------------------------------------------------------
(* app/schemas/prediction.py: PredictionRequest.model_dump().              *)
(* The fields named in ProbeFields take every kind of value; the other     *)
(* float fields are finite.  A PredictionRequest built by the schema       *)
(* always carries every field with a non-null value; the missing and the   *)
(* null values exercise validate_input_data on the dictionaries it was     *)
(* written for.                                                            *)

ProbeFields == {"rain"}
ProbeKinds == {"finite", "inf", "nan", "none", "missing"}
Probes == [ProbeFields -> ProbeKinds]

IntValue(n) == [kind |-> "int", val |-> n]
FloatValue(v) == [kind |-> "float", val |-> v]
NoneValue == [kind |-> "none", val |-> None]

IntFields == {"vehicle_id", "lap", "dominant_gear"}

ProbeValue(k) == IF k = "none" THEN NoneValue ELSE FloatValue(k)

PredictionRequest(session_id, vehicle_id, lap, probe) ==
    LET present == (Range(FEATURE_COLUMNS) \cup {"session_id"})
                       \ {f \in ProbeFields : probe[f] = "missing"}
    IN [f \in present |->
          IF f = "session_id" THEN IntValue(session_id)
          ELSE IF f = "vehicle_id" THEN IntValue(vehicle_id)
          ELSE IF f = "lap" THEN IntValue(lap)
          ELSE IF f = "dominant_gear" THEN IntValue(6)
          ELSE IF f \in ProbeFields THEN ProbeValue(probe[f])
          ELSE FloatValue("finite")]

----------------------------------------------------------------------------
(* app/utils/preprocess.py *)

\* isinstance(v, float) and np.isnan(v)
IsNaN(v) == v.kind = "float" /\ v.val = "nan"

\* fault: a validation that looks only for missing fields
validate_input_data_missing_only(data, required_fields) ==
    IF Range(required_fields) \ DOMAIN data # {}
    THEN [is_valid |-> FALSE, error_msg |-> "Missing required fields"]
    ELSE [is_valid |-> TRUE, error_msg |-> ""]

validate_input_data(data, required_fields) ==
    LET missing == Range(required_fields) \ DOMAIN data
    IN IF missing # {}
       THEN [is_valid |-> FALSE, error_msg |-> "Missing required fields"]
       ELSE IF \E i \in DOMAIN required_fields :
                   \/ data[required_fields[i]].kind = "none"
                   \/ IsNaN(data[required_fields[i]])
            THEN [is_valid |-> FALSE, error_msg |-> "Field contains invalid value"]
            ELSE [is_valid |-> TRUE, error_msg |-> ""]

\* float(input_dict[feature]) for every feature, in the order of numeric_features;
\* raises ValueError for a feature that is not in input_dict, TypeError for None
preprocess_input_dict(input_dict, numeric_features) ==
    IF \E i \in DOMAIN numeric_features :
           \/ numeric_features[i] \notin DOMAIN input_dict
           \/ input_dict[numeric_features[i]].kind = "none"
    THEN [raised |-> TRUE, X |-> << >>]
    ELSE [raised |-> FALSE,
          X |-> [i \in DOMAIN numeric_features |->
                   [scaled |-> FALSE, of |-> numeric_features[i],
                    val |-> input_dict[numeric_features[i]].val]]]

----------------------------------------------------------------------------
(* Python objects held in fields that may be None *)

NoneType == [cls |-> "NoneType"]
IsNone(x) == x.cls = "NoneType"

\* max(model.feature_importances_) of the pickled regressor, in percent
PickledMaxImportance == 40

\* pickle.load of each artifact written by ModelTrainer.save_models
pickle_load(path) ==
    CASE path = LAP_TIME_MODEL_PATH ->
             [cls |-> "RandomForestRegressor", max_importance |-> PickledMaxImportance]
      [] path = PIT_IMMINENT_MODEL_PATH -> [cls |-> "RandomForestClassifier"]
      [] path = TIRE_COMPOUND_MODEL_PATH -> [cls |-> "RandomForestClassifier"]
      [] path = SCALER_PATH -> [cls |-> "StandardScaler"]

----------------------------------------------------------------------------
(* app/services/inference.py: InferenceEngine *)

\* the fields assigned by __init__ before it calls _load_models
InferenceEngineFields ==
    [lap_time_model |-> NoneType, pit_imminent_model |-> NoneType,
     tire_compound_model |-> NoneType, scaler |-> NoneType,
     feature_columns |-> << >>, models_loaded |-> FALSE]

\* a path that does not exist leaves the field as it was
\* (feature_names.pkl, when it is there, holds the NUMERIC_FEATURES that
\* ModelTrainer.save_models wrote, the list taken when it is not there)
_load_models(self, files) ==
    LET lap == IF LAP_TIME_MODEL_PATH \in files
               THEN pickle_load(LAP_TIME_MODEL_PATH) ELSE self.lap_time_model
        pit == IF PIT_IMMINENT_MODEL_PATH \in files
               THEN pickle_load(PIT_IMMINENT_MODEL_PATH) ELSE self.pit_imminent_model
        tire == IF TIRE_COMPOUND_MODEL_PATH \in files
                THEN pickle_load(TIRE_COMPOUND_MODEL_PATH) ELSE self.tire_compound_model
        sc == IF SCALER_PATH \in files
              THEN pickle_load(SCALER_PATH) ELSE self.scaler
    IN [lap_time_model |-> lap, pit_imminent_model |-> pit,
        tire_compound_model |-> tire, scaler |-> sc,
        feature_columns |-> NUMERIC_FEATURES,
        models_loaded |-> ~IsNone(lap) /\ ~IsNone(pit) /\ ~IsNone(tire) /\ ~IsNone(sc)]

InferenceEngine(files) == _load_models(InferenceEngineFields, files)

\* returns the engine after the call; its models_loaded field is the return value
ensure_models_loaded(self, files) ==
    IF ~self.models_loaded THEN _load_models(self, files) ELSE self

\* the input check of StandardScaler.transform and of the forests' predict:
\* a vector with an infinite element is refused with ValueError
AllFinite(X) == \A i \in DOMAIN X : X[i].of \in IntFields \/ X[i].val # "inf"

\* StandardScaler.transform: (x - mean) / scale on every element
transform(X) == [i \in DOMAIN X |-> [X[i] EXCEPT !.scaled = TRUE]]

preprocess_prediction_input(self, input_data) ==
    LET columns == IF self.feature_columns # << >>
                   THEN self.feature_columns ELSE NUMERIC_FEATURES
        pre == preprocess_input_dict(input_data, columns)
    IN IF pre.raised
       THEN [raised |-> TRUE, X |-> << >>, calls |-> {}]
       ELSE IF ~IsNone(self.scaler)
            THEN IF AllFinite(pre.X)
                 THEN [raised |-> FALSE, X |-> transform(pre.X), calls |-> {"scaler"}]
                 ELSE [raised |-> TRUE, X |-> << >>, calls |-> {"scaler"}]
            ELSE [raised |-> FALSE, X |-> pre.X, calls |-> {}]

Min(a, b) == IF a < b THEN a ELSE b

\* fault: the greatest importance added to 0.5 unhalved and uncapped
_estimate_confidence_unscaled(model) ==
    IF "max_importance" \in DOMAIN model
    THEN 50 + model.max_importance
    ELSE 75

\* 0.5 + 0.5 * max_importance capped at 1.0, or 0.75 without feature importances
_estimate_confidence(model) ==
    IF "max_importance" \in DOMAIN model
    THEN Min(50 + (50 * model.max_importance) \div 100, 100)
    ELSE 75

\* what the pickled models can answer for a feature vector
LapTimeOutputs == {813000}
PitOutputs == {[prediction |-> TRUE, proba |-> 80]}
TireOutputs == {[prediction |-> "SOFT", proba |-> 60]}

\* the regressors a lap-time artifact can hold: a forest, whose
\* feature_importances_ are shares of 1, or an estimator without them
Regressors ==
    {[cls |-> "RandomForestRegressor", max_importance |-> i] : i \in 0..100}
    \cup {[cls |-> "Regressor"]}

\* predict_proba(X)[0] of the two-class and of the three-class forest: shares
\* of 1 over the classes, in percent
PitProbaVectors == {<<p, 100 - p>> : p \in 0..100}
TireProbaVectors ==
    {v \in {<<a, b, 100 - a - b>> : a \in 0..100, b \in {0, 20, 33, 50, 100}} :
        v[3] >= 0}

\* max(probabilities)
max(probabilities) ==
    CHOOSE x \in Range(probabilities) : \A y \in Range(probabilities) : y <= x

\* fault: a lap-time prediction that asks for the whole bundle
engine_predict_lap_time_whole_bundle(self, X, out) ==
    IF ~self.models_loaded
    THEN [raised |-> TRUE, calls |-> {}]
    ELSE [raised |-> FALSE, calls |-> {"lap_time_model"},
          lap_time |-> out,
          confidence |-> _estimate_confidence(self.lap_time_model)]

\* out is self.lap_time_model.predict(X)[0]
engine_predict_lap_time(self, X, out) ==
    IF IsNone(self.lap_time_model)
    THEN [raised |-> TRUE, calls |-> {}]
    ELSE IF ~AllFinite(X)
    THEN [raised |-> TRUE, calls |-> {"lap_time_model"}]
    ELSE [raised |-> FALSE, calls |-> {"lap_time_model"},
          lap_time |-> out,
          confidence |-> _estimate_confidence(self.lap_time_model)]

\* out is predict(X)[0] with max(predict_proba(X)[0])
engine_predict_pit_imminent(self, X, out) ==
    IF IsNone(self.pit_imminent_model)
    THEN [raised |-> TRUE, calls |-> {}]
    ELSE IF ~AllFinite(X)
    THEN [raised |-> TRUE, calls |-> {"pit_imminent_model"}]
    ELSE [raised |-> FALSE, calls |-> {"pit_imminent_model"},
          pit_imminent |-> out.prediction, probability |-> out.proba]

engine_predict_tire_compound(self, X, out) ==
    IF IsNone(self.tire_compound_model)
    THEN [raised |-> TRUE, calls |-> {}]
    ELSE IF ~AllFinite(X)
    THEN [raised |-> TRUE, calls |-> {"tire_compound_model"}]
    ELSE [raised |-> FALSE, calls |-> {"tire_compound_model"},
          tire_compound |-> out.prediction, confidence |-> out.proba]

\* self is the engine after ensure_models_loaded
engine_predict_all(self, X, lapOut, pitOut, tireOut) ==
    LET lt == engine_predict_lap_time(self, X, lapOut)
        pi == engine_predict_pit_imminent(self, X, pitOut)
        tc == engine_predict_tire_compound(self, X, tireOut)
    IN IF ~self.models_loaded
       THEN [raised |-> TRUE, calls |-> {}]
       ELSE IF lt.raised THEN [raised |-> TRUE, calls |-> lt.calls]
       ELSE IF pi.raised THEN [raised |-> TRUE, calls |-> lt.calls]
       ELSE IF tc.raised THEN [raised |-> TRUE, calls |-> lt.calls \cup pi.calls]
       ELSE [raised |-> FALSE,
             calls |-> lt.calls \cup pi.calls \cup tc.calls,
             results |-> [lap_time |-> lt.lap_time,
                          lap_time_confidence |-> lt.confidence,
                          pit_imminent |-> pi.pit_imminent,
                          pit_probability |-> pi.probability,
                          tire_compound |-> tc.tire_compound,
                          tire_confidence |-> tc.confidence]]

----------------------------------------------------------------------------
(* app/utils/race_event_extractor.py                                       *)
(*                                                                         *)
(* A value read from a dictionary is [kind, val]: kind "some" with the     *)
(* value, or kind "none" (None).  float('inf') is kind "inf".              *)

Some(v) == [kind |-> "some", val |-> v]
Infinity == [kind |-> "inf", val |-> 0]

\* d.get(key, default)
dict_get(d, key, default) == IF key \in DOMAIN d THEN Some(d[key]) ELSE default

\* the truth value Python gives a number or None
TruthyNumber(x) == x.kind = "inf" \/ (x.kind = "some" /\ x.val # 0)
\* the truth value Python gives a bool or None
TruthyBool(x) == x.kind = "some" /\ x.val = TRUE

Abs(n) == IF n < 0 THEN -n ELSE n

\* the multiple of step nearest to num / den (num >= 0), a tie going to the
\* even multiple: round(x, 3) is step 10, f"{x:.2f}" is step 100
RoundRatio(num, den, step) ==
    LET q == num \div (den * step)
        twice == 2 * (num % (den * step))
    IN step * (IF twice > den * step \/ (twice = den * step /\ q % 2 = 1)
               THEN q + 1 ELSE q)

ImprovementThreshold == -5000
DegradationThreshold == 10000
LowConfidence == 40
PitProbabilityThreshold == 70

\* race_events.append({"lap": lap, "event": event}) in the loop state st
emit(st, lap, event) == Append(st.race_events, [lap |-> lap, event |-> event])

\* fault: prev_lap_time assigned only where an event is emitted
lap_time_step_prev_on_event(st, result) ==
    LET lap == dict_get(result, "lap", NoneValue)
        lap_time == dict_get(result, "predicted_lap_time", NoneValue)
        confidence == dict_get(result, "confidence", Some(0))
        time_delta == lap_time.val - st.prev_lap_time.val
        event ==
            IF TruthyNumber(st.prev_lap_time) /\ TruthyNumber(lap_time)
            THEN IF time_delta < ImprovementThreshold
                 THEN << [text |-> "Strong pace improvement, lap time dropped",
                          seconds |-> RoundRatio(Abs(time_delta), 1, 100)] >>
                 ELSE IF time_delta > DegradationThreshold
                 THEN << [text |-> "Tire degradation noticed, lap time increased",
                          seconds |-> RoundRatio(time_delta, 1, 100)] >>
                 ELSE IF confidence.val < LowConfidence
                 THEN << [text |-> "Traffic detected or incident, lap time inconsistent"] >>
                 ELSE << >>
            ELSE << >>
    IN IF event # << >>
       THEN [st EXCEPT !.prev_lap_time = lap_time,
                       !.race_events = emit(st, lap, event[1])]
       ELSE IF st.prev_lap_time.kind = "none"
       THEN [st EXCEPT !.prev_lap_time = lap_time]
       ELSE st

\* fault: the test of the confidence taken out of the test of the two lap times
lap_time_step_confidence_alone(st, result) ==
    LET lap == dict_get(result, "lap", NoneValue)
        lap_time == dict_get(result, "predicted_lap_time", NoneValue)
        confidence == dict_get(result, "confidence", Some(0))
        time_delta == lap_time.val - st.prev_lap_time.val
        both == TruthyNumber(st.prev_lap_time) /\ TruthyNumber(lap_time)
    IN [st EXCEPT
          !.prev_lap_time = lap_time,
          !.race_events =
             IF both /\ time_delta < ImprovementThreshold
             THEN emit(st, lap,
                       [text |-> "Strong pace improvement, lap time dropped",
                        seconds |-> RoundRatio(Abs(time_delta), 1, 100)])
             ELSE IF both /\ time_delta > DegradationThreshold
             THEN emit(st, lap,
                       [text |-> "Tire degradation noticed, lap time increased",
                        seconds |-> RoundRatio(time_delta, 1, 100)])
             ELSE IF confidence.val < LowConfidence
             THEN emit(st, lap,
                       [text |-> "Traffic detected or incident, lap time inconsistent"])
             ELSE @]

\* the loop of extract_race_events on a lap_time prediction: st holds
\* prev_lap_time, prev_pit_imminent and race_events
lap_time_step(st, result) ==
    LET lap == dict_get(result, "lap", NoneValue)
        lap_time == dict_get(result, "predicted_lap_time", NoneValue)
        confidence == dict_get(result, "confidence", Some(0))
        time_delta == lap_time.val - st.prev_lap_time.val
    IN [st EXCEPT
          !.prev_lap_time = lap_time,
          !.race_events =
             IF TruthyNumber(st.prev_lap_time) /\ TruthyNumber(lap_time)
             THEN IF time_delta < ImprovementThreshold
                  THEN emit(st, lap,
                            [text |-> "Strong pace improvement, lap time dropped",
                             seconds |-> RoundRatio(Abs(time_delta), 1, 100)])
                  ELSE IF time_delta > DegradationThreshold
                  THEN emit(st, lap,
                            [text |-> "Tire degradation noticed, lap time increased",
                             seconds |-> RoundRatio(time_delta, 1, 100)])
                  ELSE IF confidence.val < LowConfidence
                  THEN emit(st, lap,
                            [text |-> "Traffic detected or incident, lap time inconsistent"])
                  ELSE @
             ELSE @]

\* fault: "else" for "elif not pit_imminent", the carried flag reset by every
\* pit_imminent prediction that emits nothing
pit_imminent_step_else(st, result) ==
    LET lap == dict_get(result, "lap", NoneValue)
        pit_imminent == dict_get(result, "pit_imminent", NoneValue)
        probability == dict_get(result, "probability", Some(0))
    IN IF TruthyBool(pit_imminent) /\ ~st.prev_pit_imminent
          /\ probability.val > PitProbabilityThreshold
       THEN [st EXCEPT
               !.prev_pit_imminent = TRUE,
               !.race_events =
                  emit(st, lap,
                       [text |-> "Pit stop imminent - high tire degradation detected"])]
       ELSE [st EXCEPT !.prev_pit_imminent = FALSE]

\* fault: the carried flag follows the flag of the prediction, whatever the
\* probability
pit_imminent_step_flag_follows(st, result) ==
    LET lap == dict_get(result, "lap", NoneValue)
        pit_imminent == dict_get(result, "pit_imminent", NoneValue)
        probability == dict_get(result, "probability", Some(0))
    IN IF TruthyBool(pit_imminent) /\ ~st.prev_pit_imminent
          /\ probability.val > PitProbabilityThreshold
       THEN [st EXCEPT
               !.prev_pit_imminent = TRUE,
               !.race_events =
                  emit(st, lap,
                       [text |-> "Pit stop imminent - high tire degradation detected"])]
       ELSE [st EXCEPT !.prev_pit_imminent = TruthyBool(pit_imminent)]

\* the loop on a pit_imminent prediction
pit_imminent_step(st, result) ==
    LET lap == dict_get(result, "lap", NoneValue)
        pit_imminent == dict_get(result, "pit_imminent", NoneValue)
        probability == dict_get(result, "probability", Some(0))
    IN IF TruthyBool(pit_imminent) /\ ~st.prev_pit_imminent
          /\ probability.val > PitProbabilityThreshold
       THEN [st EXCEPT
               !.prev_pit_imminent = TRUE,
               !.race_events =
                  emit(st, lap,
                       [text |-> "Pit stop imminent - high tire degradation detected"])]
       ELSE IF ~TruthyBool(pit_imminent)
       THEN [st EXCEPT !.prev_pit_imminent = FALSE]
       ELSE st

\* fault: a second tire_compound prediction of the same lap tells nothing
tire_compound_step_once_a_lap(st, result) ==
    LET lap == dict_get(result, "lap", NoneValue)
        compound == dict_get(result, "suggested_compound", NoneValue)
        event == [text |-> "Pit stop executed - switched to tires",
                  compound |-> compound.val]
    IN IF \E i \in DOMAIN st.race_events :
             st.race_events[i] = [lap |-> lap, event |-> event]
       THEN st
       ELSE [st EXCEPT !.race_events = emit(st, lap, event)]

\* the loop on a tire_compound prediction
tire_compound_step(st, result) ==
    LET lap == dict_get(result, "lap", NoneValue)
        compound == dict_get(result, "suggested_compound", NoneValue)
    IN [st EXCEPT
          !.race_events =
             emit(st, lap, [text |-> "Pit stop executed - switched to tires",
                            compound |-> compound.val])]

\* fault: the lap time of a combined prediction read like a lap_time prediction
extract_step_all_as_lap_time(st, pred) ==
    CASE pred.type = "lap_time" -> lap_time_step(st, pred.result)
      [] pred.type = "pit_imminent" -> pit_imminent_step(st, pred.result)
      [] pred.type = "tire_compound" -> tire_compound_step(st, pred.result)
      [] pred.type = "all" ->
           lap_time_step(st, [lap |-> pred.result.lap,
                              predicted_lap_time |-> pred.result.lap_time,
                              confidence |-> pred.result.lap_time_confidence])
      [] OTHER -> st

\* the body of the loop on one prediction
extract_step(st, pred) ==
    CASE pred.type = "lap_time" -> lap_time_step(st, pred.result)
      [] pred.type = "pit_imminent" -> pit_imminent_step(st, pred.result)
      [] pred.type = "tire_compound" -> tire_compound_step(st, pred.result)
      [] OTHER -> st

\* the state of the loop after the first n predictions
RECURSIVE extract_loop(_, _)
extract_loop(session_predictions, n) ==
    IF n = 0
    THEN [prev_lap_time |-> NoneValue, prev_pit_imminent |-> FALSE,
          race_events |-> << >>]
    ELSE extract_step(extract_loop(session_predictions, n - 1),
                      session_predictions[n])

extract_race_events(session_predictions) ==
    extract_loop(session_predictions, Len(session_predictions)).race_events

\* the body of the loop of calculate_summary_stats on one prediction: st
\* holds summary_stats, lap_times (their sum and number), max_speeds, pit_count
stats_step(st, pred) ==
    LET result == pred.result
        lap_time == dict_get(result, "predicted_lap_time", NoneValue)
        lap == dict_get(result, "lap", Some(0))
        counted ==
            IF pred.type = "lap_time" /\ TruthyNumber(lap_time)
            THEN [st EXCEPT
                    !.lap_times_sum = @ + lap_time.val,
                    !.lap_times_len = @ + 1,
                    !.best_lap = IF @.kind = "inf" \/ lap_time.val < @.val
                                 THEN lap_time ELSE @,
                    !.total_laps = IF lap.val > @ THEN lap.val ELSE @]
            ELSE IF pred.type = "tire_compound"
            THEN [st EXCEPT !.pit_count = @ + 1]
            ELSE st
    IN IF "max_speed" \in DOMAIN result
       THEN [counted EXCEPT !.max_speeds = @ \cup {result.max_speed}]
       ELSE counted

RECURSIVE stats_loop(_, _)
stats_loop(session_predictions, n) ==
    IF n = 0
    THEN [total_laps |-> 0, best_lap |-> Infinity, lap_times_sum |-> 0,
          lap_times_len |-> 0, max_speeds |-> {}, pit_count |-> 0]
    ELSE stats_step(stats_loop(session_predictions, n - 1), session_predictions[n])

\* the route passes no weather_data, so weather_summary keeps its default
calculate_summary_stats(session_data, session_predictions) ==
    LET st == stats_loop(session_predictions, Len(session_predictions))
        some == st.lap_times_len > 0
    IN [total_laps |-> st.total_laps,
        best_lap |-> IF some THEN Some(RoundRatio(st.best_lap.val, 1, 10))
                     ELSE st.best_lap,
        avg_lap_time |-> IF some
                         THEN RoundRatio(st.lap_times_sum, st.lap_times_len, 10)
                         ELSE 0,
        pit_stops |-> st.pit_count,
        max_speed |-> IF st.max_speeds # {}
                      THEN RoundRatio(CHOOSE m \in st.max_speeds :
                                         \A x \in st.max_speeds : x <= m, 1, 1000)
                      ELSE 0,
        final_position |-> None,
        weather_summary |-> "Clear skies"]

----------------------------------------------------------------------------
(* app/services/explain_ai.py and app/services/race_story.py *)

\* what model.generate_content can do once the API key is configured:
\* answer with text, answer with an empty response, or raise
GeminiOutcomes == {"text", "empty", "quota error", "timeout error"}

\* both collaborators are built from GEMINI_API_KEY
GeminiClient(api_key) ==
    [model |-> IF api_key THEN [cls |-> "GenerativeModel"] ELSE NoneType]

is_available(self) == ~IsNone(self.model)

explain_prediction(self, outcome) ==
    IF ~is_available(self)
    THEN [text |-> "Explanation unavailable: Gemini API key not configured.",
          calls |-> {}]
    ELSE [text |-> CASE outcome = "text" -> "explanation text"
                     [] outcome = "empty" -> "Unable to generate explanation at this time."
                     [] outcome = "quota error" -> "Explanation generation failed: quota"
                     [] outcome = "timeout error" -> "Explanation generation failed: timeout",
          calls |-> {"explain_ai"}]

generate_story(self, outcome) ==
    IF ~is_available(self)
    THEN [text |-> "Story unavailable: Gemini API key not configured.",
          calls |-> {}]
    ELSE [text |-> CASE outcome = "text" -> "story text"
                     [] outcome = "empty" -> "Unable to generate race story at this time."
                     [] outcome = "quota error" -> "Story generation failed: quota"
                     [] outcome = "timeout error" -> "Story generation failed: timeout",
          calls |-> {"race_story_generator"}]

\* the outcomes that matter for a collaborator: none when it is not configured
OutcomesOf(self) == IF is_available(self) THEN GeminiOutcomes ELSE {"text"}

----------------------------------------------------------------------------
(* app/api/routes.py                                                       *)
(*                                                                         *)
(* Each handler is an operator of its request (and of what its             *)
(* collaborators answer) that reads the module's globals and gives what    *)
(* the handler returns or raises (status, body), the collaborators it      *)
(* called (calls) and the globals it leaves behind (sessions, engine).     *)
(* The action of a handler takes the globals the operator gives.           *)

HTTP_200_OK == 200
HTTP_201_CREATED == 201
HTTP_400_BAD_REQUEST == 400
HTTP_404_NOT_FOUND == 404
HTTP_500_INTERNAL_SERVER_ERROR == 500

\* raise HTTPException(status_code, detail): the globals stay as they are
HTTPException(status_code, detail, calls) ==
    [status |-> status_code, body |-> [detail |-> detail], calls |-> calls,
     sessions |-> sessions, engine |-> inference_engine]

\* a handler that returns normally
Returned(status_code, body, calls, store, engine) ==
    [status |-> status_code, body |-> body, calls |-> calls,
     sessions |-> store, engine |-> engine]

\* datetime.utcnow(): readings of the wall clock are not told apart
utcnow == "utcnow"

\* uuid.uuid4().hex[:12]: a random token, taken never to repeat a token it
\* gave before (the code does not look the token up in sessions)
uuid4_hex12(given) == SessionIds \ given

SessionResponse(session, status) ==
    [session_id |-> session.session_id, vehicle_id |-> session.vehicle_id,
     race_name |-> session.race_name, created_at |-> session.created_at,
     status |-> status]

session_data(session_id, vehicle_id, race_name) ==
    [session_id |-> session_id, vehicle_id |-> vehicle_id,
     race_name |-> race_name, created_at |-> utcnow,
     status |-> "active", predictions |-> << >>]

\* fault: sessions = {session_id: session_data}
store_session_alone(store, session_id, data) ==
    [k \in {session_id} |-> data]

\* sessions[session_id] = session_data
store_session(store, session_id, data) ==
    [k \in DOMAIN store \cup {session_id} |->
        IF k = session_id THEN data ELSE store[k]]

\* session_id is the token uuid4 gave
create_session(session_id, vehicle_id, race_name) ==
    LET data == session_data(session_id, vehicle_id, race_name)
    IN Returned(HTTP_201_CREATED, SessionResponse(data, "active"), {},
                store_session(sessions, session_id, data), inference_engine)

\* fault: the HTTPException caught by "except Exception" and raised again as 500
SessionNotFound_swallowed ==
    HTTPException(HTTP_500_INTERNAL_SERVER_ERROR, "Prediction failed", {})

SessionNotFound == HTTPException(HTTP_404_NOT_FOUND, "Session not found", {})

get_session(session_id) ==
    IF session_id \notin DOMAIN sessions
    THEN SessionNotFound
    ELSE Returned(HTTP_200_OK,
                  SessionResponse(sessions[session_id], sessions[session_id].status),
                  {}, sessions, inference_engine)

\* fault: predictions.insert(0, record)
append_prediction_first(store, session_id, type, result) ==
    [store EXCEPT ![session_id].predictions =
        << [type |-> type, timestamp |-> utcnow, result |-> result] >> \o @]

\* fault: a record of the same type and lap is replaced where it stands
append_prediction_dedup(store, session_id, type, result) ==
    LET log == store[session_id].predictions
        record == [type |-> type, timestamp |-> utcnow, result |-> result]
        same(i) == log[i].type = type /\ log[i].result.lap = result.lap
    IN [store EXCEPT ![session_id].predictions =
          IF \E i \in DOMAIN log : same(i)
          THEN [i \in DOMAIN log |-> IF same(i) THEN record ELSE log[i]]
          ELSE Append(log, record)]

\* fault: a lost update, the record written over the last one of the log
append_prediction_overwrite(store, session_id, type, result) ==
    LET log == store[session_id].predictions
        record == [type |-> type, timestamp |-> utcnow, result |-> result]
    IN [store EXCEPT ![session_id].predictions =
          IF log = << >> THEN << record >>
          ELSE [log EXCEPT ![Len(log)] = record]]

\* sessions[session_id]['predictions'].append({'type', 'timestamp', 'result'})
append_prediction(store, session_id, type, result) ==
    [store EXCEPT ![session_id].predictions =
        Append(@, [type |-> type, timestamp |-> utcnow, result |-> result])]

\* fault: the RuntimeError of the engine answered as a bad request
PredictionFailed_bad_request(calls) ==
    HTTPException(HTTP_400_BAD_REQUEST, "Prediction failed", calls)

\* except Exception: raise HTTPException(500, f"Prediction failed: {e}")
PredictionFailed(calls) ==
    HTTPException(HTTP_500_INTERNAL_SERVER_ERROR, "Prediction failed", calls)

\* a predict request: the session, the telemetry, and what the model and
\* the explainer answer when they are asked
predict_lap_time(session_id, vehicle_id, lap, probe, out, outcome) ==
    LET request_dict == PredictionRequest(session_id, vehicle_id, lap, probe)
        valid == validate_input_data(request_dict, NUMERIC_FEATURES)
        pre == preprocess_prediction_input(inference_engine, request_dict)
        p == engine_predict_lap_time(inference_engine, pre.X, out)
        explanation == explain_prediction(explain_ai, outcome)
        response == [session_id |-> session_id, vehicle_id |-> vehicle_id,
                     lap |-> lap, predicted_lap_time |-> p.lap_time,
                     confidence |-> p.confidence,
                     explanation |-> explanation.text]
    IN IF session_id \notin DOMAIN sessions THEN SessionNotFound
       ELSE IF ~valid.is_valid
       THEN HTTPException(HTTP_400_BAD_REQUEST, valid.error_msg, {})
       ELSE IF pre.raised THEN PredictionFailed(pre.calls)
       ELSE IF p.raised THEN PredictionFailed(pre.calls \cup p.calls)
       ELSE Returned(HTTP_200_OK, response,
                     pre.calls \cup p.calls \cup explanation.calls,
                     append_prediction(sessions, session_id, "lap_time", response),
                     inference_engine)

predict_pit(session_id, vehicle_id, lap, probe, out, outcome) ==
    LET request_dict == PredictionRequest(session_id, vehicle_id, lap, probe)
        valid == validate_input_data(request_dict, NUMERIC_FEATURES)
        pre == preprocess_prediction_input(inference_engine, request_dict)
        p == engine_predict_pit_imminent(inference_engine, pre.X, out)
        explanation == explain_prediction(explain_ai, outcome)
        response == [session_id |-> session_id, vehicle_id |-> vehicle_id,
                     lap |-> lap, pit_imminent |-> p.pit_imminent,
                     probability |-> p.probability,
                     explanation |-> explanation.text]
    IN IF session_id \notin DOMAIN sessions THEN SessionNotFound
       ELSE IF ~valid.is_valid
       THEN HTTPException(HTTP_400_BAD_REQUEST, valid.error_msg, {})
       ELSE IF pre.raised THEN PredictionFailed(pre.calls)
       ELSE IF p.raised THEN PredictionFailed(pre.calls \cup p.calls)
       ELSE Returned(HTTP_200_OK, response,
                     pre.calls \cup p.calls \cup explanation.calls,
                     append_prediction(sessions, session_id, "pit_imminent", response),
                     inference_engine)

predict_tire(session_id, vehicle_id, lap, probe, out, outcome) ==
    LET request_dict == PredictionRequest(session_id, vehicle_id, lap, probe)
        valid == validate_input_data(request_dict, NUMERIC_FEATURES)
        pre == preprocess_prediction_input(inference_engine, request_dict)
        p == engine_predict_tire_compound(inference_engine, pre.X, out)
        explanation == explain_prediction(explain_ai, outcome)
        response == [session_id |-> session_id, vehicle_id |-> vehicle_id,
                     lap |-> lap, suggested_compound |-> p.tire_compound,
                     confidence |-> p.confidence,
                     explanation |-> explanation.text]
    IN IF session_id \notin DOMAIN sessions THEN SessionNotFound
       ELSE IF ~valid.is_valid
       THEN HTTPException(HTTP_400_BAD_REQUEST, valid.error_msg, {})
       ELSE IF pre.raised THEN PredictionFailed(pre.calls)
       ELSE IF p.raised THEN PredictionFailed(pre.calls \cup p.calls)
       ELSE Returned(HTTP_200_OK, response,
                     pre.calls \cup p.calls \cup explanation.calls,
                     append_prediction(sessions, session_id, "tire_compound", response),
                     inference_engine)

\* ensure_models_loaded may reload the engine, and the reloaded engine stays
\* whether or not the request then fails
predict_all(session_id, vehicle_id, lap, probe, lapOut, pitOut, tireOut) ==
    LET request_dict == PredictionRequest(session_id, vehicle_id, lap, probe)
        valid == validate_input_data(request_dict, NUMERIC_FEATURES)
        pre == preprocess_prediction_input(inference_engine, request_dict)
        engine == ensure_models_loaded(inference_engine, artifacts)
        p == engine_predict_all(engine, pre.X, lapOut, pitOut, tireOut)
        response == [session_id |-> session_id, vehicle_id |-> vehicle_id,
                     lap |-> lap,
                     lap_time |-> p.results.lap_time,
                     lap_time_confidence |-> p.results.lap_time_confidence,
                     pit_imminent |-> p.results.pit_imminent,
                     pit_probability |-> p.results.pit_probability,
                     tire_compound |-> p.results.tire_compound,
                     tire_confidence |-> p.results.tire_confidence]
    IN IF session_id \notin DOMAIN sessions THEN SessionNotFound
       ELSE IF ~valid.is_valid
       THEN HTTPException(HTTP_400_BAD_REQUEST, valid.error_msg, {})
       ELSE IF pre.raised THEN PredictionFailed(pre.calls)
       ELSE IF p.raised
       THEN [PredictionFailed(pre.calls \cup p.calls) EXCEPT !.engine = engine]
       ELSE Returned(HTTP_200_OK, response, pre.calls \cup p.calls,
                     append_prediction(sessions, session_id, "all", response),
                     engine)

get_session_predictions(session_id) ==
    IF session_id \notin DOMAIN sessions
    THEN SessionNotFound
    ELSE Returned(HTTP_200_OK,
                  [session_id |-> session_id,
                   prediction_count |-> Len(sessions[session_id].predictions),
                   predictions |-> sessions[session_id].predictions],
                  {}, sessions, inference_engine)

\* fault: every session of the store closed with the one addressed
set_closed_all(store, session_id) ==
    [id \in DOMAIN store |-> [store[id] EXCEPT !.status = "closed"]]

\* fault: the status flipped, so that a second close opens the session again
set_closed_toggle(store, session_id) ==
    [store EXCEPT ![session_id].status = IF @ = "closed" THEN "active" ELSE "closed"]

\* session['status'] = 'closed'
set_closed(store, session_id) == [store EXCEPT ![session_id].status = "closed"]

close_session(session_id) ==
    IF session_id \notin DOMAIN sessions
    THEN SessionNotFound
    ELSE Returned(HTTP_200_OK,
                  SessionResponse(set_closed(sessions, session_id)[session_id], "closed"),
                  {}, set_closed(sessions, session_id), inference_engine)

\* fault: the derived story stored in the session as generate_race_story does
generate_race_story_auto_stored(session_id, vehicle_id, outcome) ==
    LET story == generate_story(race_story_generator, outcome)
    IN IF session_id \notin DOMAIN sessions
       THEN SessionNotFound
       ELSE LET session_predictions == sessions[session_id].predictions
                race_events == extract_race_events(session_predictions)
                summary_stats ==
                    calculate_summary_stats([session_id |-> session_id],
                                            session_predictions)
            IN [status |-> HTTP_200_OK,
                body |-> [session_id |-> session_id, vehicle_id |-> vehicle_id,
                          story |-> story.text],
                calls |-> story.calls,
                sessions |->
                   [sessions EXCEPT ![session_id] =
                      [k \in DOMAIN @ \cup {"race_story"} |->
                         IF k = "race_story"
                         THEN [vehicle_id |-> vehicle_id, story |-> story.text,
                               generated_at |-> utcnow,
                               race_events_count |-> Len(race_events)]
                         ELSE @[k]]],
                engine |-> inference_engine,
                prompt |-> [race_events |-> race_events,
                            summary_stats |-> summary_stats]]

\* extract_race_events and calculate_summary_stats read the stored
\* predictions into the prompt and catch what they raise; nothing is stored
\* (prompt is what generate_story is given to build its prompt from)
generate_race_story_auto(session_id, vehicle_id, outcome) ==
    LET story == generate_story(race_story_generator, outcome)
    IN IF session_id \notin DOMAIN sessions
       THEN SessionNotFound
       ELSE LET session_predictions == sessions[session_id].predictions
                race_events == extract_race_events(session_predictions)
                summary_stats ==
                    calculate_summary_stats([session_id |-> session_id],
                                            session_predictions)
            IN [status |-> HTTP_200_OK,
                body |-> [session_id |-> session_id, vehicle_id |-> vehicle_id,
                          story |-> story.text],
                calls |-> story.calls,
                sessions |-> sessions, engine |-> inference_engine,
                prompt |-> [race_events |-> race_events,
                            summary_stats |-> summary_stats]]

\* request.race_events as the caller sends them
RaceEventInputs == { << [lap |-> 1, event |-> "Strong start"] >> }

\* fault: the race of the session renamed after its story
store_race_story_renamed(store, session_id, vehicle_id, story, race_events) ==
    [store EXCEPT ![session_id] =
        [k \in DOMAIN @ \cup {"race_story"} |->
            IF k = "race_story"
            THEN [vehicle_id |-> vehicle_id, story |-> story,
                  generated_at |-> utcnow,
                  race_events_count |-> Len(race_events)]
            ELSE IF k = "race_name" THEN story
            ELSE @[k]]]

\* fault: the session dict built anew around the story
store_race_story_rebuilt(store, session_id, vehicle_id, story, race_events) ==
    [store EXCEPT ![session_id] =
        [k \in DOMAIN @ \cup {"race_story"} |->
            IF k = "race_story"
            THEN [vehicle_id |-> vehicle_id, story |-> story,
                  generated_at |-> utcnow,
                  race_events_count |-> Len(race_events)]
            ELSE IF k = "status" THEN "active"
            ELSE @[k]]]

\* sessions[session_id]['race_story'] = {...}
store_race_story(store, session_id, vehicle_id, story, race_events) ==
    [store EXCEPT ![session_id] =
        [k \in DOMAIN @ \cup {"race_story"} |->
            IF k = "race_story"
            THEN [vehicle_id |-> vehicle_id, story |-> story,
                  generated_at |-> utcnow,
                  race_events_count |-> Len(race_events)]
            ELSE @[k]]]

generate_race_story(session_id, vehicle_id, race_events, outcome) ==
    LET story == generate_story(race_story_generator, outcome)
    IN IF session_id \notin DOMAIN sessions
       THEN SessionNotFound
       ELSE Returned(HTTP_200_OK,
                     [session_id |-> session_id, vehicle_id |-> vehicle_id,
                      story |-> story.text],
                     story.calls,
                     store_race_story(sessions, session_id, vehicle_id,
                                      story.text, race_events),
                     inference_engine)

----------------------------------------------------------------------------
(* The requests *)

\* the number of records in all the logs of a store
RECURSIVE TotalOver(_, _)
TotalOver(store, ids) ==
    IF ids = {} THEN 0
    ELSE LET x == CHOOSE y \in ids : TRUE
         IN Len(store[x].predictions) + TotalOver(store, ids \ {x})

TotalPredictions(store) == TotalOver(store, DOMAIN store)

\* the globals after a handler; the store holds at most MaxPredictions records
Handled(r) ==
    /\ TotalPredictions(r.sessions) <= MaxPredictions
    /\ sessions' = r.sessions
    /\ inference_engine' = r.engine
    /\ UNCHANGED <<artifacts, explain_ai, race_story_generator, derivation,
                   event_loop>>

CreateSession ==
    /\ Cardinality(issued) < MaxSessions
    /\ \E session_id \in uuid4_hex12(issued), vehicle_id \in VehicleIds,
          race_name \in RaceNames :
         /\ Handled(create_session(session_id, vehicle_id, race_name))
         /\ issued' = issued \cup {session_id}
    /\ UNCHANGED closeCalled

GetSession ==
    /\ \E session_id \in RequestIds : Handled(get_session(session_id))
    /\ UNCHANGED <<issued, closeCalled>>

PredictLapTime ==
    /\ \E session_id \in RequestIds, vehicle_id \in VehicleIds, lap \in Laps,
          probe \in Probes, out \in LapTimeOutputs,
          outcome \in OutcomesOf(explain_ai) :
         Handled(predict_lap_time(session_id, vehicle_id, lap, probe, out, outcome))
    /\ UNCHANGED <<issued, closeCalled>>

PredictPit ==
    /\ \E session_id \in RequestIds, vehicle_id \in VehicleIds, lap \in Laps,
          probe \in Probes, out \in PitOutputs,
          outcome \in OutcomesOf(explain_ai) :
         Handled(predict_pit(session_id, vehicle_id, lap, probe, out, outcome))
    /\ UNCHANGED <<issued, closeCalled>>

PredictTire ==
    /\ \E session_id \in RequestIds, vehicle_id \in VehicleIds, lap \in Laps,
          probe \in Probes, out \in TireOutputs,
          outcome \in OutcomesOf(explain_ai) :
         Handled(predict_tire(session_id, vehicle_id, lap, probe, out, outcome))
    /\ UNCHANGED <<issued, closeCalled>>

PredictAll ==
    /\ \E session_id \in RequestIds, vehicle_id \in VehicleIds, lap \in Laps,
          probe \in Probes, lapOut \in LapTimeOutputs, pitOut \in PitOutputs,
          tireOut \in TireOutputs :
         Handled(predict_all(session_id, vehicle_id, lap, probe,
                             lapOut, pitOut, tireOut))
    /\ UNCHANGED <<issued, closeCalled>>

GetSessionPredictions ==
    /\ \E session_id \in RequestIds : Handled(get_session_predictions(session_id))
    /\ UNCHANGED <<issued, closeCalled>>

CloseSession ==
    \E session_id \in RequestIds :
      /\ Handled(close_session(session_id))
      /\ closeCalled' = IF close_session(session_id).status = HTTP_200_OK
                        THEN closeCalled \cup {session_id} ELSE closeCalled
      /\ UNCHANGED issued

GenerateRaceStoryAuto ==
    /\ \E session_id \in RequestIds, vehicle_id \in VehicleIds,
          outcome \in OutcomesOf(race_story_generator) :
         Handled(generate_race_story_auto(session_id, vehicle_id, outcome))
    /\ UNCHANGED <<issued, closeCalled>>

GenerateRaceStory ==
    /\ \E session_id \in RequestIds, vehicle_id \in VehicleIds,
          race_events \in RaceEventInputs,
          outcome \in OutcomesOf(race_story_generator) :
         Handled(generate_race_story(session_id, vehicle_id, race_events, outcome))
    /\ UNCHANGED <<issued, closeCalled>>

----------------------------------------------------------------------------
(* Import of routes.py: an empty store, the engine loaded from the files    *)
(* that exist under MODELS_DIR, the two Gemini clients built from the       *)
(* environment's GEMINI_API_KEY                                             *)

\* no request has arrived yet
NoRequests == [arrivals |-> << >>, answers |-> << >>]

ImportRoutes(files, api_key) ==
    /\ event_loop = NoRequests
    /\ sessions = << >>
    /\ issued = {}
    /\ closeCalled = {}
    /\ artifacts = files
    /\ inference_engine = InferenceEngine(files)
    /\ explain_ai = GeminiClient(api_key)
    /\ race_story_generator = GeminiClient(api_key)

\* neither derivation function has been called on its own
NoDerivation(session_predictions) ==
    [session_predictions |-> session_predictions,
     race_events |-> NoneValue, summary_stats |-> NoneValue]

\* the default deployment: every artifact ModelTrainer.save_models writes
\* is there, and GEMINI_API_KEY keeps its default ""
Init == ImportRoutes(ArtifactPaths, FALSE) /\ derivation = NoDerivation(<< >>)

Next ==
    \/ CreateSession
    \/ GetSession
    \/ PredictLapTime
    \/ PredictPit
    \/ PredictTire
    \/ PredictAll
    \/ GetSessionPredictions
    \/ CloseSession
    \/ GenerateRaceStoryAuto
    \/ GenerateRaceStory

Spec == Init /\ [][Next]_vars

\* every deployment: any of the artifacts may be missing from MODELS_DIR and
\* GEMINI_API_KEY may be set; the store is kept to MaxDeployedSessions
\* sessions and MaxDeployedPredictions records
MaxDeployedSessions == 1
MaxDeployedPredictions == 1

InitDeployments ==
    /\ \E files \in SUBSET ArtifactPaths, api_key \in BOOLEAN :
          ImportRoutes(files, api_key)
    /\ derivation = NoDerivation(<< >>)

Deployed(A) ==
    /\ A
    /\ Cardinality(issued') <= MaxDeployedSessions
    /\ TotalPredictions(sessions') <= MaxDeployedPredictions

\* ModelTrainer.save_models, run (train.py) while the server is up: every
\* artifact is written under MODELS_DIR
SaveModels ==
    /\ artifacts' = ArtifactPaths
    /\ UNCHANGED <<sessions, issued, closeCalled, inference_engine, explain_ai,
                   race_story_generator, derivation, event_loop>>

NextDeployments ==
    \/ Deployed(SaveModels)
    \/ Deployed(CreateSession)
    \/ Deployed(GetSession)
    \/ Deployed(PredictLapTime)
    \/ Deployed(PredictPit)
    \/ Deployed(PredictTire)
    \/ Deployed(PredictAll)
    \/ Deployed(GetSessionPredictions)
    \/ Deployed(CloseSession)
    \/ Deployed(GenerateRaceStoryAuto)
    \/ Deployed(GenerateRaceStory)

SpecDeployments == InitDeployments /\ [][NextDeployments]_vars

----------------------------------------------------------------------------
(* The derivation functions of race_event_extractor.py on their own: every *)
(* log of at most MaxLogLen prediction records, the records shaped as the  *)
(* predict handlers store them, and the two logs of the examples           *)

MaxLogLen == 3

\* predicted lap times: none (0.0), 81 s, 81.5 s, 82.5 s and 82.5004 s
PredictedLapTimes == {0, 810000, 815000, 825000, 825004}
Confidences == {30, 40}
PitProbabilities == {70, 80}
\* the lap of the records that are not lap_time records
LaterLap == MaxLap + 1

LapTimeRecord(lap, predicted_lap_time, confidence) ==
    [type |-> "lap_time", timestamp |-> utcnow,
     result |-> [session_id |-> 1, vehicle_id |-> 1, lap |-> lap,
                 predicted_lap_time |-> predicted_lap_time,
                 confidence |-> confidence, explanation |-> "explanation text"]]

PitImminentRecord(lap, pit_imminent, probability) ==
    [type |-> "pit_imminent", timestamp |-> utcnow,
     result |-> [session_id |-> 1, vehicle_id |-> 1, lap |-> lap,
                 pit_imminent |-> pit_imminent, probability |-> probability,
                 explanation |-> "explanation text"]]

TireCompoundRecord(lap, suggested_compound, confidence) ==
    [type |-> "tire_compound", timestamp |-> utcnow,
     result |-> [session_id |-> 1, vehicle_id |-> 1, lap |-> lap,
                 suggested_compound |-> suggested_compound,
                 confidence |-> confidence, explanation |-> "explanation text"]]

AllRecord(lap, lap_time, pit_imminent, tire_compound) ==
    [type |-> "all", timestamp |-> utcnow,
     result |-> [session_id |-> 1, vehicle_id |-> 1, lap |-> lap,
                 lap_time |-> lap_time, lap_time_confidence |-> 70,
                 pit_imminent |-> pit_imminent, pit_probability |-> 80,
                 tire_compound |-> tire_compound, tire_confidence |-> 60]]

PredictionRecords ==
    {LapTimeRecord(lap, t, c) :
        lap \in Laps, t \in PredictedLapTimes, c \in Confidences}
    \cup {PitImminentRecord(LaterLap, TRUE, p) : p \in PitProbabilities}
    \cup {PitImminentRecord(LaterLap, FALSE, 80),
          TireCompoundRecord(LaterLap, "SOFT", 60),
          AllRecord(LaterLap, 810000, TRUE, "SOFT")}

\* lap times [82.0, 81.3, 82.0, 83.2] with confidences [0.9, 0.9, 0.3, 0.9]
ExtractionExample ==
    << LapTimeRecord(1, 820000, 90), LapTimeRecord(2, 813000, 90),
       LapTimeRecord(3, 820000, 30), LapTimeRecord(4, 832000, 90) >>

\* laps [5, 12, 20] with lap times [81.0, 79.5, 80.2]
SummaryExample ==
    << LapTimeRecord(5, 810000, 90), LapTimeRecord(12, 795000, 90),
       LapTimeRecord(20, 802000, 90) >>

DerivationLogs ==
    UNION {[1..n -> PredictionRecords] : n \in 0..MaxLogLen}
    \cup {ExtractionExample, SummaryExample}

InitDerivation ==
    /\ ImportRoutes(ArtifactPaths, FALSE)
    /\ \E session_predictions \in DerivationLogs :
          derivation = NoDerivation(session_predictions)

Program == <<sessions, issued, closeCalled, artifacts, inference_engine,
             explain_ai, race_story_generator, event_loop>>

ExtractRaceEvents ==
    /\ derivation.race_events.kind = "none"
    /\ derivation' =
          [derivation EXCEPT
             !.race_events = Some(extract_race_events(derivation.session_predictions))]
    /\ UNCHANGED Program

CalculateSummaryStats ==
    /\ derivation.summary_stats.kind = "none"
    /\ derivation' =
          [derivation EXCEPT
             !.summary_stats =
                Some(calculate_summary_stats([session_id |-> 1],
                                             derivation.session_predictions))]
    /\ UNCHANGED Program

NextDerivation == ExtractRaceEvents \/ CalculateSummaryStats

SpecDerivation == InitDerivation /\ [][NextDerivation]_vars

----------------------------------------------------------------------------
(* Concurrent predict requests.  The handlers are coroutines (async def)   *)
(* without an await in their bodies, served by the one event loop of       *)
(* uvicorn.run(app): a handler that has started runs to its return before  *)
(* the handler of another request starts, and the loop starts the handlers *)
(* in the order the requests arrived.                                      *)

MaxArrivals == 3

\* the predict requests of the clients: every task and lap on the sessions,
\* one request on a session that does not exist and one with invalid telemetry
ConcurrentRequests ==
    {[task |-> task, session_id |-> session_id, lap |-> lap,
      probe |-> [f \in ProbeFields |-> "finite"]] :
        task \in {"lap_time", "pit_imminent", "tire_compound", "all"},
        session_id \in SessionIds, lap \in Laps}
    \cup {[task |-> "lap_time", session_id |-> UnknownId, lap |-> 1,
           probe |-> [f \in ProbeFields |-> "finite"]],
          [task |-> "lap_time", session_id |-> 1, lap |-> 1,
           probe |-> [f \in ProbeFields |-> "nan"]]}

\* the handler of a request, with the answers of the models
handler(request) ==
    LET lapOut == CHOOSE out \in LapTimeOutputs : TRUE
        pitOut == CHOOSE out \in PitOutputs : TRUE
        tireOut == CHOOSE out \in TireOutputs : TRUE
        vehicle_id == CHOOSE v \in VehicleIds : TRUE
    IN CASE request.task = "lap_time" ->
              predict_lap_time(request.session_id, vehicle_id, request.lap,
                               request.probe, lapOut, "text")
         [] request.task = "pit_imminent" ->
              predict_pit(request.session_id, vehicle_id, request.lap,
                          request.probe, pitOut, "text")
         [] request.task = "tire_compound" ->
              predict_tire(request.session_id, vehicle_id, request.lap,
                           request.probe, tireOut, "text")
         [] request.task = "all" ->
              predict_all(request.session_id, vehicle_id, request.lap,
                          request.probe, lapOut, pitOut, tireOut)

\* a request arrives while the handlers of earlier ones have not run yet
Arrive ==
    /\ Len(event_loop.arrivals) < MaxArrivals
    /\ \E request \in ConcurrentRequests :
          event_loop' = [event_loop EXCEPT !.arrivals = Append(@, request)]
    /\ UNCHANGED <<sessions, issued, closeCalled, artifacts, inference_engine,
                   explain_ai, race_story_generator, derivation>>

\* the loop runs the handler of the oldest request that waits, to its end
RunHandler ==
    /\ Len(event_loop.answers) < Len(event_loop.arrivals)
    /\ LET request == event_loop.arrivals[Len(event_loop.answers) + 1]
           r == handler(request)
       IN /\ sessions' = r.sessions
          /\ inference_engine' = r.engine
          /\ event_loop' = [event_loop EXCEPT !.answers = Append(@, r.status)]
    /\ UNCHANGED <<issued, closeCalled, artifacts, explain_ai,
                   race_story_generator, derivation>>

NextConcurrent == CreateSession \/ Arrive \/ RunHandler

SpecConcurrent == Init /\ [][NextConcurrent]_vars

----------------------------------------------------------------------------
(* Properties *)

ValidProbes == {probe \in Probes : \A f \in ProbeFields : probe[f] = "finite"}
\* telemetry with a field that is missing, None or NaN
InvalidProbes ==
    {probe \in Probes : \E f \in ProbeFields : probe[f] \in {"missing", "none", "nan"}}
\* telemetry whose fields are all there, with an infinite one
InfiniteProbes == Probes \ (ValidProbes \cup InvalidProbes)

Tasks == {"lap_time", "pit_imminent", "tire_compound", "all"}

\* what the handler of a task can answer to one request, for every answer of
\* the models and of the explainer
PredictResults(task, session_id, vehicle_id, lap, probe) ==
    CASE task = "lap_time" ->
           {predict_lap_time(session_id, vehicle_id, lap, probe, out, outcome) :
              out \in LapTimeOutputs, outcome \in OutcomesOf(explain_ai)}
      [] task = "pit_imminent" ->
           {predict_pit(session_id, vehicle_id, lap, probe, out, outcome) :
              out \in PitOutputs, outcome \in OutcomesOf(explain_ai)}
      [] task = "tire_compound" ->
           {predict_tire(session_id, vehicle_id, lap, probe, out, outcome) :
              out \in TireOutputs, outcome \in OutcomesOf(explain_ai)}
      [] task = "all" ->
           {predict_all(session_id, vehicle_id, lap, probe, lapOut, pitOut, tireOut) :
              lapOut \in LapTimeOutputs, pitOut \in PitOutputs,
              tireOut \in TireOutputs}

\* the answers to every predict request of a task on a session with the
\* telemetry of probes
TaskResults(task, session_id, probes) ==
    UNION {PredictResults(task, session_id, vehicle_id, lap, probe) :
             vehicle_id \in VehicleIds, lap \in Laps, probe \in probes}

\* the answers of every handler that takes a session id
SessionRequestResults(session_id) ==
    {get_session(session_id), close_session(session_id),
     get_session_predictions(session_id)}
    \cup UNION {TaskResults(task, session_id, Probes) : task \in Tasks}
    \cup {generate_race_story_auto(session_id, vehicle_id, outcome) :
            vehicle_id \in VehicleIds,
            outcome \in OutcomesOf(race_story_generator)}
    \cup {generate_race_story(session_id, vehicle_id, race_events, outcome) :
            vehicle_id \in VehicleIds, race_events \in RaceEventInputs,
            outcome \in OutcomesOf(race_story_generator)}

IsPrefix(s, t) == Len(s) <= Len(t) /\ SubSeq(t, 1, Len(s)) = s

Laps_of(log) == [i \in DOMAIN log |-> log[i].result.lap]

\* C1: once a session is closed no step makes its log longer, and the
\* closed session's records are still listed.
C1_ClosedLogFrozen ==
    [][\A id \in DOMAIN sessions :
          sessions[id].status = "closed" =>
             /\ Len(sessions'[id].predictions) = Len(sessions[id].predictions)
             /\ get_session_predictions(id).body.predictions
                   = sessions[id].predictions]_vars

C3_StatusFollowsClose ==
    \A id \in issued :
       /\ get_session(id).status = HTTP_200_OK
       /\ get_session(id).body.status
             = (IF id \in closeCalled THEN "closed" ELSE "active")

\* a closed session and an open one, each with a prediction, the closed
\* one with a story stored
C3_Witness ==
    \E a, b \in issued :
       /\ a \in closeCalled /\ b \notin closeCalled
       /\ Len(sessions[a].predictions) = 1
       /\ Len(sessions[b].predictions) = 1
       /\ "race_story" \in DOMAIN sessions[a]
       /\ get_session(a).body.status = "closed"
       /\ get_session(b).body.status = "active"

\* C4: every handler that takes a session id, called with an id that is
\* not in the store, answers 404, calls no model, no scaler and no Gemini
\* collaborator, and leaves the store and the engine as they were.
C4_UnknownSessionNotFound ==
    \A session_id \in RequestIds \ DOMAIN sessions :
       \A r \in SessionRequestResults(session_id) :
          /\ r.status = HTTP_404_NOT_FOUND
          /\ r.calls = {}
          /\ r.sessions = sessions
          /\ r.engine = inference_engine

\* a store with a session, every model loaded and both Gemini collaborators
\* configured: a request on another id is not found
C4_Witness ==
    /\ DOMAIN sessions # {}
    /\ UnknownId \notin DOMAIN sessions
    /\ inference_engine.models_loaded
    /\ is_available(explain_ai) /\ is_available(race_story_generator)
    /\ \A r \in SessionRequestResults(UnknownId) : r.status = HTTP_404_NOT_FOUND

\* C5: in every step, the list get_session_predictions gave for a session
\* before the step is a prefix of the list it gives after it.
C5_LogAppendOnly ==
    [][\A id \in DOMAIN sessions :
          /\ id \in DOMAIN sessions'
          /\ IsPrefix(get_session_predictions(id).body.predictions,
                      get_session_predictions(id).body.predictions')]_vars

\* a log that grew twice, in a session that was then closed and given a story
C5_Witness ==
    \E id \in DOMAIN sessions :
       /\ get_session_predictions(id).body.prediction_count = 2
       /\ sessions[id].status = "closed"
       /\ "race_story" \in DOMAIN sessions[id]

\* C6: a predict request that answers 200 leaves the log of its session as
\* it was with one record more at the end, of the type of the task and with
\* the lap of the request, and leaves every other session as it was; this
\* holds whatever laps the log already holds.
C6_OneRecordAtEnd ==
    \A session_id \in DOMAIN sessions, task \in Tasks,
       vehicle_id \in VehicleIds, lap \in Laps, probe \in Probes :
       \A r \in PredictResults(task, session_id, vehicle_id, lap, probe) :
          r.status = HTTP_200_OK =>
             LET old == sessions[session_id].predictions
                 log == r.sessions[session_id].predictions
             IN /\ Len(log) = Len(old) + 1
                /\ SubSeq(log, 1, Len(old)) = old
                /\ log[Len(log)].type = task
                /\ log[Len(log)].result.lap = lap
                /\ log[Len(log)].result = r.body
                /\ \A k \in DOMAIN sessions \ {session_id} :
                      r.sessions[k] = sessions[k]

\* laps submitted out of order stay in the order of submission
C6_Witness ==
    \E id \in DOMAIN sessions :
       /\ Laps_of(sessions[id].predictions) = <<2, 1>>
       /\ sessions[id].predictions[1].type = "all"
       /\ sessions[id].predictions[2].type = "pit_imminent"

\* C7: a predict request on a session of the store whose telemetry has a
\* missing, None or NaN field answers 400, calls neither the scaler nor a
\* model nor the explainer, and leaves the store as it was.
C7_InvalidTelemetryRejected ==
    \A session_id \in DOMAIN sessions, task \in Tasks :
       \A r \in TaskResults(task, session_id, InvalidProbes) :
          /\ r.status = HTTP_400_BAD_REQUEST
          /\ r.calls = {}
          /\ r.sessions = sessions

\* a session in a deployment with every artifact loaded: the NaN request
\* is rejected where the finite one is served
C7_Witness ==
    /\ inference_engine.models_loaded
    /\ \E session_id \in DOMAIN sessions :
         /\ \A r \in TaskResults("all", session_id, {[f \in ProbeFields |-> "nan"]}) :
               r.status = HTTP_400_BAD_REQUEST
         /\ \A r \in TaskResults("all", session_id, ValidProbes) :
               r.status = HTTP_200_OK

ThreeModelsPresent(self) ==
    /\ ~IsNone(self.lap_time_model)
    /\ ~IsNone(self.pit_imminent_model)
    /\ ~IsNone(self.tire_compound_model)

\* C8: a valid predict_all request on a session of the store fails (500,
\* nothing appended) exactly when one of the three models is absent from
\* the engine the request used, and answers 200 when the three are present.
C8_PredictAllIffModelAbsent ==
    \A session_id \in DOMAIN sessions :
       \A r \in TaskResults("all", session_id, ValidProbes) :
          /\ r.status \in {HTTP_200_OK, HTTP_500_INTERNAL_SERVER_ERROR}
          /\ r.status = HTTP_500_INTERNAL_SERVER_ERROR
                <=> ~ThreeModelsPresent(r.engine)
          /\ r.status = HTTP_500_INTERNAL_SERVER_ERROR => r.sessions = sessions

OwnModel(task, self) ==
    CASE task = "lap_time" -> self.lap_time_model
      [] task = "pit_imminent" -> self.pit_imminent_model
      [] task = "tire_compound" -> self.tire_compound_model

\* the engine's method of a task on an assembled feature vector
EngineResults(task, self, X) ==
    CASE task = "lap_time" ->
           {engine_predict_lap_time(self, X, out) : out \in LapTimeOutputs}
      [] task = "pit_imminent" ->
           {engine_predict_pit_imminent(self, X, out) : out \in PitOutputs}
      [] task = "tire_compound" ->
           {engine_predict_tire_compound(self, X, out) : out \in TireOutputs}

\* C9: each of predict_lap_time, predict_pit_imminent, predict_tire_compound
\* raises exactly when the engine's own model of the task is None, and the
\* handler of the task, on a valid request for a session of the store,
\* answers 200 when that model is present and 500 when it is absent,
\* whatever the other models and the scaler are.
C9_OwnModelOnly ==
    \A task \in Tasks \ {"all"} :
       LET absent == IsNone(OwnModel(task, inference_engine))
       IN /\ \A p \in EngineResults(task, inference_engine, << >>) :
                p.raised <=> absent
          /\ \A session_id \in DOMAIN sessions :
                \A r \in TaskResults(task, session_id, ValidProbes) :
                   r.status = (IF absent THEN HTTP_500_INTERNAL_SERVER_ERROR
                               ELSE HTTP_200_OK)

\* the lap-time model alone is loaded and a lap-time prediction was stored,
\* while the two other tasks fail
C9_Witness ==
    /\ ~IsNone(inference_engine.lap_time_model)
    /\ IsNone(inference_engine.pit_imminent_model)
    /\ IsNone(inference_engine.tire_compound_model)
    /\ IsNone(inference_engine.scaler)
    /\ \E id \in DOMAIN sessions :
         /\ Len(sessions[id].predictions) = 1
         /\ sessions[id].predictions[1].type = "lap_time"
         /\ \A r \in TaskResults("pit_imminent", id, ValidProbes) :
               r.status = HTTP_500_INTERNAL_SERVER_ERROR

\* the models a task needs are in the engine
RequiredModelsPresent(task, self) ==
    IF task = "all" THEN ThreeModelsPresent(self) ELSE ~IsNone(OwnModel(task, self))

\* C10: with no scaler in the engine, preprocessing gives the assembled
\* feature vector unscaled, and every valid predict request on a session of
\* the store whose task has its models answers 200 and appends its record.
C10_ScalerAbsentStillServes ==
    IsNone(inference_engine.scaler) =>
       \A session_id \in DOMAIN sessions, task \in Tasks,
          vehicle_id \in VehicleIds, lap \in Laps, probe \in ValidProbes :
          LET request_dict == PredictionRequest(session_id, vehicle_id, lap, probe)
              pre == preprocess_prediction_input(inference_engine, request_dict)
          IN /\ ~pre.raised
             /\ pre.X = preprocess_input_dict(request_dict, NUMERIC_FEATURES).X
             /\ pre.calls = {}
             /\ RequiredModelsPresent(task, inference_engine) =>
                   \A r \in PredictResults(task, session_id, vehicle_id, lap, probe) :
                      /\ r.status = HTTP_200_OK
                      /\ Len(r.sessions[session_id].predictions)
                            = Len(sessions[session_id].predictions) + 1

\* C11: a valid predict request on a session of the store whose task lacks
\* a model it needs in the engine it uses answers 500, where a request with
\* invalid telemetry answers 400, and leaves the store as it was.
C11_ModelAbsentIsServerError ==
    \A session_id \in DOMAIN sessions, task \in Tasks :
       /\ \A r \in TaskResults(task, session_id, ValidProbes) :
             ~RequiredModelsPresent(task, r.engine) =>
                /\ r.status = HTTP_500_INTERNAL_SERVER_ERROR
                /\ r.sessions = sessions
       /\ \A r \in TaskResults(task, session_id, InvalidProbes) :
             /\ r.status = HTTP_400_BAD_REQUEST
             /\ r.status # HTTP_500_INTERNAL_SERVER_ERROR

\* a session in a deployment without the pit-imminent model, its log
\* holding the one lap-time prediction that was served
C11_Witness ==
    /\ IsNone(inference_engine.pit_imminent_model)
    /\ ~IsNone(inference_engine.lap_time_model)
    /\ \E id \in DOMAIN sessions :
         /\ Len(sessions[id].predictions) = 1
         /\ \A r \in TaskResults("pit_imminent", id, ValidProbes)
                     \cup TaskResults("all", id, ValidProbes) :
               r.status = HTTP_500_INTERNAL_SERVER_ERROR
         /\ \A r \in TaskResults("pit_imminent", id, InvalidProbes) :
               r.status = HTTP_400_BAD_REQUEST

\* the answers of the collaborator after which no story was generated
FailedOutcomes(self) ==
    IF is_available(self) THEN GeminiOutcomes \ {"text"} ELSE GeminiOutcomes

\* what the two story handlers answer for a session of the store
StoryResults(session_id, outcome) ==
    {generate_race_story_auto(session_id, v, outcome) : v \in VehicleIds}
    \cup {generate_race_story(session_id, v, race_events, outcome) :
             v \in VehicleIds, race_events \in RaceEventInputs}

\* C16: the story handlers answer a request on an existing session normally
\* whatever the collaborator does, and when it is not configured, answers
\* nothing or fails, the story is one fixed placeholder, the one returned
\* when the collaborator is not configured.
C16_StoryFallbackFixed ==
    \A session_id \in DOMAIN sessions, outcome \in GeminiOutcomes :
       \A r \in StoryResults(session_id, outcome) :
          /\ r.status = HTTP_200_OK
          /\ outcome \in FailedOutcomes(race_story_generator) =>
                r.body.story = generate_story(GeminiClient(FALSE), outcome).text

\* C17: close_session on a session that was closed before answers 200 with
\* status closed and leaves the store as the first close left it: status
\* closed, the prediction log and every other field as they are.
C17_CloseIdempotent ==
    \A session_id \in closeCalled :
       /\ close_session(session_id).status = HTTP_200_OK
       /\ close_session(session_id).body.status = "closed"
       /\ close_session(session_id).sessions = sessions
       /\ sessions[session_id].status = "closed"

\* a closed session with a record in its log and a story, closed once more
C17_Witness ==
    \E session_id \in closeCalled :
       /\ Len(sessions[session_id].predictions) >= 1
       /\ "race_story" \in DOMAIN sessions[session_id]
       /\ close_session(session_id).status = HTTP_200_OK
       /\ close_session(session_id).sessions[session_id].predictions
             = sessions[session_id].predictions

Percent == 0..100

\* the engine of the state with the regressor model in the place of its
\* lap-time model, when it has one
WithRegressor(self, model) ==
    [self EXCEPT !.lap_time_model = IF IsNone(@) THEN @ ELSE model]

\* the confidences and probabilities in the result of a stored record
ConfidencesOf(pred) ==
    CASE pred.type = "lap_time" -> {pred.result.confidence}
      [] pred.type = "pit_imminent" -> {pred.result.probability}
      [] pred.type = "tire_compound" -> {pred.result.confidence}
      [] pred.type = "all" -> {pred.result.lap_time_confidence,
                               pred.result.pit_probability,
                               pred.result.tire_confidence}

\* C18: the confidence of predict_lap_time and the probability and
\* confidence of predict_pit_imminent and predict_tire_compound, and the
\* three of them in predict_all, lie in [0, 1] for every loaded model and
\* every answer of the models; so do those of every stored record.
C18_ConfidenceInUnitInterval ==
    /\ \A model \in Regressors, lapOut \in LapTimeOutputs,
          pitOut \in PitOutputs, tireOut \in TireOutputs :
          LET self == WithRegressor(inference_engine, model)
              lt == engine_predict_lap_time(self, << >>, lapOut)
              all == engine_predict_all(self, << >>, lapOut, pitOut, tireOut)
          IN /\ ~lt.raised => lt.confidence \in Percent
             /\ ~all.raised => all.results.lap_time_confidence \in Percent
    /\ \A proba \in PitProbaVectors, lapOut \in LapTimeOutputs,
          tireOut \in TireOutputs :
          LET pitOut == [prediction |-> TRUE, proba |-> max(proba)]
              pi == engine_predict_pit_imminent(inference_engine, << >>, pitOut)
              all == engine_predict_all(inference_engine, << >>,
                                        lapOut, pitOut, tireOut)
          IN /\ ~pi.raised => pi.probability \in Percent
             /\ ~all.raised => all.results.pit_probability \in Percent
    /\ \A proba \in TireProbaVectors, lapOut \in LapTimeOutputs,
          pitOut \in PitOutputs :
          LET tireOut == [prediction |-> "SOFT", proba |-> max(proba)]
              tc == engine_predict_tire_compound(inference_engine, << >>, tireOut)
              all == engine_predict_all(inference_engine, << >>,
                                        lapOut, pitOut, tireOut)
          IN /\ ~tc.raised => tc.confidence \in Percent
             /\ ~all.raised => all.results.tire_confidence \in Percent
    /\ \A session_id \in DOMAIN sessions :
          \A i \in DOMAIN sessions[session_id].predictions :
             ConfidencesOf(sessions[session_id].predictions[i]) \subseteq Percent

\* the whole bundle is loaded, a prediction of the three models is stored,
\* and a forest with one feature of importance 1 answers with confidence 1
C18_Witness ==
    /\ inference_engine.models_loaded
    /\ \E session_id \in DOMAIN sessions :
          /\ Len(sessions[session_id].predictions) = 1
          /\ sessions[session_id].predictions[1].type = "all"
    /\ \E model \in Regressors :
          engine_predict_all(WithRegressor(inference_engine, model), << >>,
                             CHOOSE out \in LapTimeOutputs : TRUE,
                             CHOOSE out \in PitOutputs : TRUE,
                             CHOOSE out \in TireOutputs : TRUE)
             .results.lap_time_confidence = 100

\* the first n requests that arrived, those on the session that were
\* answered 200, in the order of their arrival
RECURSIVE Served(_, _, _)
Served(loop, session_id, n) ==
    IF n = 0 THEN << >>
    ELSE LET before == Served(loop, session_id, n - 1)
         IN IF /\ loop.arrivals[n].session_id = session_id
               /\ loop.answers[n] = HTTP_200_OK
            THEN Append(before, loop.arrivals[n])
            ELSE before

C20_StoryStoredOnlyOnSuccess ==
    \A session_id \in DOMAIN sessions, vehicle_id \in VehicleIds,
       race_events \in RaceEventInputs, outcome \in GeminiOutcomes :
       outcome \in FailedOutcomes(race_story_generator) =>
          generate_race_story(session_id, vehicle_id, race_events, outcome).sessions
             = sessions

----------------------------------------------------------------------------
(* Properties of the derivation functions *)

LapTimeEventTexts ==
    {"Strong pace improvement, lap time dropped",
     "Tire degradation noticed, lap time increased",
     "Traffic detected or incident, lap time inconsistent"}

IsLapTimeEvent(e) == e.event.text \in LapTimeEventTexts
IsPitImminentEvent(e) ==
    e.event.text = "Pit stop imminent - high tire degradation detected"
IsPitExecutedEvent(e) == e.event.text = "Pit stop executed - switched to tires"

\* the lap and the text of every event
Told(events) ==
    [i \in DOMAIN events |->
        [lap |-> events[i].lap.val, text |-> events[i].event.text]]

\* the lap_time record before record i, 0 when there is none
PreviousLapTimeRecord(log, i) ==
    LET before == {j \in 1..(i - 1) : log[j].type = "lap_time"}
    IN IF before = {} THEN 0 ELSE CHOOSE j \in before : \A k \in before : k <= j

\* the event the rule of the three thresholds gives lap_time record i, as
\* a sequence of no or one element
RuledLapTimeEvent(log, i) ==
    LET j == PreviousLapTimeRecord(log, i)
        delta == log[i].result.predicted_lap_time - log[j].result.predicted_lap_time
        told(text) == << [lap |-> log[i].result.lap, text |-> text] >>
    IN IF log[i].type # "lap_time" \/ j = 0 THEN << >>
       ELSE IF delta < ImprovementThreshold
       THEN told("Strong pace improvement, lap time dropped")
       ELSE IF delta > DegradationThreshold
       THEN told("Tire degradation noticed, lap time increased")
       ELSE IF log[i].result.confidence < LowConfidence
       THEN told("Traffic detected or incident, lap time inconsistent")
       ELSE << >>

RECURSIVE RuledLapTimeEvents(_, _)
RuledLapTimeEvents(log, n) ==
    IF n = 0 THEN << >>
    ELSE RuledLapTimeEvents(log, n - 1) \o RuledLapTimeEvent(log, n)

\* C12: the lap-time events extract_race_events returns are, in order, the
\* events the rule gives the lap_time records that have a lap_time record
\* before them: improvement if delta < -0.5, else degradation if
\* delta > 1.0, else inconsistency if confidence < 0.4, else none; for the
\* example log they are improvement, inconsistency, degradation at records
\* 2, 3 and 4.
C12_LapTimeEventRule ==
    derivation.race_events.kind = "some" =>
       LET log == derivation.session_predictions
           events == Told(SelectSeq(derivation.race_events.val, IsLapTimeEvent))
       IN /\ events = RuledLapTimeEvents(log, Len(log))
          /\ log = ExtractionExample =>
                events = << [lap |-> 2, text |-> "Strong pace improvement, lap time dropped"],
                            [lap |-> 3, text |-> "Traffic detected or incident, lap time inconsistent"],
                            [lap |-> 4, text |-> "Tire degradation noticed, lap time increased"] >>

Count(events, Test(_)) == Len(SelectSeq(events, Test))

FlagFalse(log, i) ==
    log[i].type = "pit_imminent" /\ ~log[i].result.pit_imminent

\* record i is a pit_imminent record with flag true and probability > 0.7
\* met with the carried flag false: no earlier record of that kind is
\* followed, before i, by no pit_imminent record with flag false
RECURSIVE RisingEdge(_, _)
RisingEdge(log, i) ==
    /\ log[i].type = "pit_imminent"
    /\ log[i].result.pit_imminent
    /\ log[i].result.probability > PitProbabilityThreshold
    /\ \A j \in 1..(i - 1) :
          RisingEdge(log, j) => \E m \in (j + 1)..(i - 1) : FlagFalse(log, m)

\* C13: extract_race_events emits a 'pit stop imminent' event for a record
\* exactly when it is a pit_imminent record with flag true and probability
\* > 0.7 met with the carried flag false; the carried flag is true from an
\* emission until a pit_imminent record with flag false; so a record with
\* flag false lies between any two emissions.
C13_PitImminentRisingEdge ==
    derivation.race_events.kind = "some" =>
       LET log == derivation.session_predictions
           pit(n) == Count(extract_race_events(SubSeq(log, 1, n)), IsPitImminentEvent)
           emits(i) == pit(i) = pit(i - 1) + 1
       IN /\ pit(Len(log)) = Count(derivation.race_events.val, IsPitImminentEvent)
          /\ \A i \in DOMAIN log :
                /\ pit(i) \in {pit(i - 1), pit(i - 1) + 1}
                /\ emits(i) <=> RisingEdge(log, i)
                /\ extract_loop(log, i).prev_pit_imminent
                      <=> \E j \in 1..i :
                             /\ emits(j)
                             /\ \A m \in (j + 1)..i : ~FlagFalse(log, m)
          /\ \A i, k \in DOMAIN log :
                i < k /\ emits(i) /\ emits(k) =>
                   \E m \in (i + 1)..(k - 1) : FlagFalse(log, m)

\* flag true with probability 0.8, flag false, flag true with probability
\* 0.8: the event was emitted twice
C13_Witness ==
    /\ derivation.session_predictions =
          << PitImminentRecord(LaterLap, TRUE, 80),
             PitImminentRecord(LaterLap, FALSE, 80),
             PitImminentRecord(LaterLap, TRUE, 80) >>
    /\ derivation.race_events.kind = "some"
    /\ Count(derivation.race_events.val, IsPitImminentEvent) = 2

LapTimeRecords(log) == {i \in DOMAIN log : log[i].type = "lap_time"}

RECURSIVE SumOfLapTimes(_, _)
SumOfLapTimes(log, n) ==
    IF n = 0 THEN 0
    ELSE SumOfLapTimes(log, n - 1)
            + (IF log[n].type = "lap_time"
               THEN log[n].result.predicted_lap_time ELSE 0)

\* C14: over a log with lap_time records, calculate_summary_stats returns
\* best_lap the least predicted lap time of the lap_time records,
\* avg_lap_time their mean rounded to 3 decimals and total_laps the highest
\* lap of the lap_time records; for laps [5, 12, 20] with values
\* [81.0, 79.5, 80.2] these are 79.5, 80.233 and 20.
C14_SummaryOfLapTimes ==
    derivation.summary_stats.kind = "some" =>
       LET log == derivation.session_predictions
           stats == derivation.summary_stats.val
           recs == LapTimeRecords(log)
       IN /\ recs # {} =>
                /\ stats.best_lap.kind = "some"
                /\ \E i \in recs :
                      /\ stats.best_lap.val = log[i].result.predicted_lap_time
                      /\ \A j \in recs : log[j].result.predicted_lap_time
                                            >= stats.best_lap.val
                /\ stats.avg_lap_time
                      = RoundRatio(SumOfLapTimes(log, Len(log)), Cardinality(recs), 10)
                /\ \E i \in recs :
                      /\ stats.total_laps = log[i].result.lap
                      /\ \A j \in recs : log[j].result.lap <= stats.total_laps
          /\ log = SummaryExample =>
                /\ stats.best_lap = Some(795000)
                /\ stats.avg_lap_time = 802330
                /\ stats.total_laps = 20

\* C15: calculate_summary_stats returns best_lap +infinity, avg_lap_time 0
\* and total_laps 0 over a log without lap_time record, and a finite
\* best_lap over every log that holds a lap_time record.
C15_BestLapInfiniteIffNoLapTime ==
    derivation.summary_stats.kind = "some" =>
       LET log == derivation.session_predictions
           stats == derivation.summary_stats.val
       IN /\ LapTimeRecords(log) = {} =>
                /\ stats.best_lap = Infinity
                /\ stats.avg_lap_time = 0
                /\ stats.total_laps = 0
          /\ stats.best_lap.kind = "inf" <=> LapTimeRecords(log) = {}

\* the last lap_time record among the first i records, 0 when there is none
LastLapTimeRecord(log, i) == PreviousLapTimeRecord(log, i + 1)

\* C21: after every record of the log the carried previous lap time is the
\* predicted value of the last lap_time record so far, whether that record
\* emitted an event or not and whatever records of other types followed it;
\* the seconds told by an improvement or degradation event are the
\* difference to the lap_time record immediately before.
C21_PrevLapTimeFollowsEveryRecord ==
    derivation.race_events.kind = "some" =>
       LET log == derivation.session_predictions
       IN \A i \in DOMAIN log :
             LET j == LastLapTimeRecord(log, i)
                 before == extract_loop(log, i - 1)
                 after == extract_loop(log, i)
             IN /\ after.prev_lap_time
                      = (IF j = 0 THEN NoneValue
                         ELSE Some(log[j].result.predicted_lap_time))
                /\ (/\ log[i].type = "lap_time"
                    /\ Len(after.race_events) > Len(before.race_events)
                    /\ "seconds" \in DOMAIN after.race_events[Len(after.race_events)].event)
                   => after.race_events[Len(after.race_events)].event.seconds
                         = RoundRatio(
                              Abs(log[i].result.predicted_lap_time
                                  - log[PreviousLapTimeRecord(log, i)]
                                       .result.predicted_lap_time), 1, 100)

\* 81.5 s, then 81.0 s without an event, then 82.5 s: the degradation told
\* is 1.5 s, against the second record and not the first
C21_Witness ==
    /\ derivation.race_events.kind = "some"
    /\ \E a, b, c \in Laps :
          derivation.session_predictions
             = << LapTimeRecord(a, 815000, 40), LapTimeRecord(b, 810000, 40),
                  LapTimeRecord(c, 825000, 40) >>
    /\ Len(derivation.race_events.val) = 1
    /\ derivation.race_events.val[1].event.seconds = 15000

\* what a telemetry vector can be handed to
ScalerAndModels ==
    {"scaler", "lap_time_model", "pit_imminent_model", "tire_compound_model"}

\* C22: a predict request on a session of the store whose telemetry has a
\* field that is missing, None, NaN or infinite is rejected by the
\* validation (400), and the scaler and the models are handed only
\* telemetry whose fields are all present and finite.
C22_OnlyFiniteTelemetryReachesModels ==
    \A session_id \in DOMAIN sessions, task \in Tasks :
       /\ \A r \in TaskResults(task, session_id, Probes \ ValidProbes) :
             r.status = HTTP_400_BAD_REQUEST
       /\ \A probe \in Probes :
             \A r \in TaskResults(task, session_id, {probe}) :
                r.calls \cap ScalerAndModels # {} => probe \in ValidProbes

\* C23: no step of a request reassigns a model, the scaler or the feature
\* order of the engine: the engine stays what the startup loading made it,
\* also when an artifact was missing then.
C23_BundleReadOnly ==
    [][inference_engine' = inference_engine]_vars

TireCompoundRecords(log) == {i \in DOMAIN log : log[i].type = "tire_compound"}

\* C24: every tire_compound record adds one 'pit stop executed' event, so
\* extract_race_events returns as many of these events as the log holds
\* tire_compound records, and calculate_summary_stats returns that number
\* as pit_stops.
C24_PitStopsAreTireRecords ==
    LET log == derivation.session_predictions
        executed(n) == Count(extract_loop(log, n).race_events, IsPitExecutedEvent)
    IN /\ derivation.race_events.kind = "some" =>
             /\ Count(derivation.race_events.val, IsPitExecutedEvent)
                   = Cardinality(TireCompoundRecords(log))
             /\ \A i \in DOMAIN log :
                   executed(i) = executed(i - 1)
                                    + (IF log[i].type = "tire_compound" THEN 1 ELSE 0)
       /\ derivation.summary_stats.kind = "some" =>
             derivation.summary_stats.val.pit_stops
                = Cardinality(TireCompoundRecords(log))

\* two tire_compound records of the same lap with a record of another type
\* between them: two events and two pit stops
C24_Witness ==
    /\ Len(derivation.session_predictions) = MaxLogLen
    /\ TireCompoundRecords(derivation.session_predictions) = {1, MaxLogLen}
    /\ derivation.race_events.kind = "some"
    /\ derivation.summary_stats.kind = "some"
    /\ Count(derivation.race_events.val, IsPitExecutedEvent) = 2
    /\ derivation.summary_stats.val.pit_stops = 2

\* the answers of the handlers that may write to the session they are
\* addressed to
WritingRequestResults(session_id) ==
    SessionRequestResults(session_id)
    \cup {generate_race_story(session_id, vehicle_id, race_events, outcome) :
            vehicle_id \in VehicleIds, race_events \in RaceEventInputs,
            outcome \in OutcomesOf(race_story_generator)}

\* C25: whatever a request addressed to a session answers (a prediction,
\* close_session, a race story given or derived), every other session of
\* the store is left with the status, the log and the other fields it had.
C25_SessionsIndependent ==
    \A a \in DOMAIN sessions :
       \A r \in WritingRequestResults(a) :
          /\ DOMAIN r.sessions = DOMAIN sessions
          /\ \A b \in DOMAIN sessions \ {a} : r.sessions[b] = sessions[b]

\* two sessions, the second one closed with a record and a story, the first
\* one open: a prediction, a close and a story change the first one alone
C25_Witness ==
    \E a, b \in DOMAIN sessions :
       /\ a # b
       /\ sessions[a].status = "active"
       /\ sessions[b].status = "closed"
       /\ Len(sessions[b].predictions) = 1
       /\ "race_story" \in DOMAIN sessions[b]
       /\ close_session(a).sessions[a] # sessions[a]
       /\ \E r \in TaskResults("all", a, ValidProbes) :
             Len(r.sessions[a].predictions) = Len(sessions[a].predictions) + 1
       /\ \E r \in WritingRequestResults(a) : "race_story" \in DOMAIN r.sessions[a]

\* C26: generate_race_story_auto on a session of the store hands
\* generate_story the events and the statistics of the log the session
\* holds at that moment, answers 200, and returns the store as it found it:
\* the log, the status and every other field of the session.
C26_AutoStoryStoresNothing ==
    \A session_id \in DOMAIN sessions, vehicle_id \in VehicleIds,
       outcome \in GeminiOutcomes :
       LET r == generate_race_story_auto(session_id, vehicle_id, outcome)
           log == sessions[session_id].predictions
       IN /\ r.status = HTTP_200_OK
          /\ r.prompt.race_events = extract_race_events(log)
          /\ r.prompt.summary_stats
                = calculate_summary_stats([session_id |-> session_id], log)
          /\ r.sessions = sessions
          /\ r.engine = inference_engine

\* GEMINI_API_KEY is set and the session holds a tire_compound record: the
\* collaborator is asked with the one event of the log, a story is
\* answered, and no race_story is in the session
C26_Witness ==
    /\ is_available(race_story_generator)
    /\ \E session_id \in DOMAIN sessions :
          LET r == generate_race_story_auto(session_id, 1, "text")
          IN /\ Len(sessions[session_id].predictions) = 1
             /\ sessions[session_id].predictions[1].type = "tire_compound"
             /\ Len(r.prompt.race_events) = 1
             /\ r.prompt.summary_stats.pit_stops = 1
             /\ r.calls = {"race_story_generator"}
             /\ r.body.story = "story text"
             /\ "race_story" \notin DOMAIN r.sessions[session_id]

IsNotAll(pred) == pred.type # "all"

\* C27: a record of type 'all' leaves the loop of extract_race_events as it
\* was (no event, the carried lap time and pit flag unchanged) and the loop
\* of calculate_summary_stats as well, so both functions return over a log
\* what they return over the log without its 'all' records; over a log of
\* 'all' records alone they return no event and best_lap +infinity.
C27_AllRecordsIgnored ==
    LET log == derivation.session_predictions
        others == SelectSeq(log, IsNotAll)
    IN /\ derivation.race_events.kind = "some" =>
             /\ derivation.race_events.val = extract_race_events(others)
             /\ \A i \in DOMAIN log :
                   log[i].type = "all" =>
                      extract_loop(log, i) = extract_loop(log, i - 1)
             /\ others = << >> => derivation.race_events.val = << >>
       /\ derivation.summary_stats.kind = "some" =>
             /\ derivation.summary_stats.val
                   = calculate_summary_stats([session_id |-> 1], others)
             /\ \A i \in DOMAIN log :
                   log[i].type = "all" =>
                      stats_loop(log, i) = stats_loop(log, i - 1)
             /\ others = << >> =>
                   /\ derivation.summary_stats.val.best_lap = Infinity
                   /\ derivation.summary_stats.val.avg_lap_time = 0
                   /\ derivation.summary_stats.val.total_laps = 0
                   /\ derivation.summary_stats.val.pit_stops = 0

\* 82.5 s, a combined prediction with lap time 81.0 s, then 81.0 s: the
\* improvement of 1.5 s is told, and the statistics count two laps
C27_Witness ==
    /\ derivation.session_predictions
          = << LapTimeRecord(1, 825000, 40),
               AllRecord(LaterLap, 810000, TRUE, "SOFT"),
               LapTimeRecord(2, 810000, 40) >>
    /\ derivation.race_events.kind = "some"
    /\ derivation.summary_stats.kind = "some"
    /\ Len(derivation.race_events.val) = 1
    /\ derivation.race_events.val[1].event.seconds = 15000
    /\ derivation.summary_stats.val.avg_lap_time = 817500
    /\ derivation.summary_stats.val.total_laps = 2
    /\ derivation.summary_stats.val.pit_stops = 0

\* record i is a pit_imminent record with flag true and probability <= 0.7
UnsureTrue(log, i) ==
    /\ log[i].type = "pit_imminent"
    /\ log[i].result.pit_imminent
    /\ log[i].result.probability <= PitProbabilityThreshold

\* C28: a pit_imminent record with flag true and probability <= 0.7 met
\* with the carried flag false leaves the loop as it was, no event and the
\* carried flag false; a pit_imminent record with flag true and probability
\* > 0.7 right after it gets the 'pit stop imminent' event.
C28_UnsureTrueKeepsFlagFalse ==
    derivation.race_events.kind = "some" =>
       LET log == derivation.session_predictions
           pit(n) == Count(extract_loop(log, n).race_events, IsPitImminentEvent)
       IN \A i \in DOMAIN log :
             (UnsureTrue(log, i) /\ ~extract_loop(log, i - 1).prev_pit_imminent) =>
                /\ extract_loop(log, i) = extract_loop(log, i - 1)
                /\ ~extract_loop(log, i).prev_pit_imminent
                /\ (/\ i + 1 \in DOMAIN log
                    /\ log[i + 1].type = "pit_imminent"
                    /\ log[i + 1].result.pit_imminent
                    /\ log[i + 1].result.probability > PitProbabilityThreshold)
                   => /\ pit(i + 1) = pit(i) + 1
                      /\ extract_loop(log, i + 1).prev_pit_imminent

\* flag true with probability 0.7, then flag true with probability 0.8: one
\* event, told for the second record
C28_Witness ==
    /\ derivation.session_predictions
          = << PitImminentRecord(LaterLap, TRUE, 70),
               PitImminentRecord(LaterLap, TRUE, 80) >>
    /\ derivation.race_events.kind = "some"
    /\ Count(derivation.race_events.val, IsPitImminentEvent) = 1
    /\ extract_loop(derivation.session_predictions, 1).race_events = << >>

\* C29: the first lap_time record of a log adds no event, whatever its
\* confidence and its predicted value: every lap-time event belongs to a
\* lap_time record that has a lap_time record before it.
C29_FirstLapTimeRecordSilent ==
    derivation.race_events.kind = "some" =>
       LET log == derivation.session_predictions
       IN /\ \A i \in DOMAIN log :
                (log[i].type = "lap_time" /\ PreviousLapTimeRecord(log, i) = 0) =>
                   extract_loop(log, i).race_events
                      = extract_loop(log, i - 1).race_events
          /\ Cardinality(LapTimeRecords(log)) <= 1 =>
                Count(derivation.race_events.val, IsLapTimeEvent) = 0

\* two lap_time records of 81.0 s with confidence 0.3: the first one tells
\* nothing, the second one the inconsistency
C29_Witness ==
    /\ \E a, b \in Laps :
          derivation.session_predictions
             = << LapTimeRecord(a, 810000, 30), LapTimeRecord(b, 810000, 30) >>
    /\ derivation.race_events.kind = "some"
    /\ Len(derivation.race_events.val) = 1
    /\ extract_loop(derivation.session_predictions, 1).race_events = << >>

\* C30: no step removes a session from the store or changes the
\* session_id, vehicle_id, race_name or created_at of a stored session, and
\* after every step get_session answers 200 for every id create_session
\* has returned.
C30_StoreGrowsIdentityKept ==
    [][/\ \A id \in DOMAIN sessions :
             /\ id \in DOMAIN sessions'
             /\ sessions'[id].session_id = sessions[id].session_id
             /\ sessions'[id].vehicle_id = sessions[id].vehicle_id
             /\ sessions'[id].race_name = sessions[id].race_name
             /\ sessions'[id].created_at = sessions[id].created_at
       /\ issued \subseteq issued'
       /\ \A id \in issued' :
             /\ (get_session(id).status)' = HTTP_200_OK
             /\ (get_session(id).body.session_id)' = id]_vars

\* two sessions created, both with a record, one closed with a story
\* stored: get_session still answers for both with what they were created with
C30_Witness ==
    /\ Cardinality(issued) = MaxSessions
    /\ \A id \in issued :
          /\ get_session(id).status = HTTP_200_OK
          /\ get_session(id).body.session_id = id
          /\ Len(sessions[id].predictions) >= 1
          /\ sessions[id].race_name \in RaceNames
    /\ \E id \in issued :
          /\ sessions[id].status = "closed"
          /\ "race_story" \in DOMAIN sessions[id]

====
